---- MODULE Spec2Model ----
(***************************************************************************)
(* Model of lnPi/segment.py: the adaptive peak finder                      *)
(* (peak_local_max_adaptive), the barrier estimator and greedy merger      *)
(* (FreeEnergylnPi) and the tag merging of PhaseCreator.                   *)
(*                                                                         *)
(* The field is a 1-D lattice of NPts points with integer values; a mask   *)
(* in the image convention is the set of points it includes.  Arrays keep  *)
(* the source's 0-based indices.  np.inf is the number Inf, larger than    *)
(* every finite value the model can produce.                               *)
(***************************************************************************)
EXTENDS Integers, FiniteSets, Sequences, TLC

NPts == 4          \* number of lattice points of the field
MaxCand == 2       \* longest min_distance list tried
MaxPeaks == 2      \* largest finite num_peaks_max tried
MaxPhases == 3     \* largest number of regions handed to the tagging step
MaxTag == 2        \* tags are 0..MaxTag
MaxVal == 1        \* field values are 0..MaxVal
Inf == 1000        \* np.inf
None == -1         \* Python None as an argument; a number not bound yet
Unset == <<>>      \* a name not bound yet: an uncomputed cache entry, a local before its assignment

Points == 1..NPts
MaxFeature == NPts                   \* disjoint non-empty masks: at most one per point
Vals == 0..MaxVal
Thresholds == {0, MaxVal}            \* efac values tried
NfeatureMaxChoices == {None, 0, 1, 2}  \* nfeature_max values tried

Max(a, b) == IF a >= b THEN a ELSE b
Min(a, b) == IF a <= b THEN a ELSE b
SetMax(S) == CHOOSE x \in S : \A y \in S : y <= x
SetMin(S) == CHOOSE x \in S : \A y \in S : x <= y

\* mask_change_convention between "image" (member = included) and "masked"
\* (member = excluded)
ChangeConvention(msk, from, to) == IF from = to THEN msk ELSE Points \ msk

\* a - b on floats that may be np.inf (b is always finite here)
Sub(a, b) == IF a = Inf THEN Inf ELSE a - b

VARIABLES
    \* ---- FreeEnergylnPi instance ----
    data,          \* self._data : field value of each point
    masks,         \* self._masks : [0..n-1 -> SUBSET Points], mutable arrays
    masks_in,      \* the masks the estimator was constructed from
    c_w_tran,      \* gcached w_tran (Unset until first access)
    c_w_min,       \* gcached w_min (Unset until first access)
    \* ---- one merge_regions call ----
    pc,            \* "idle", "loop", "done", "error"
    force, efac, nfeature_max,
    w_tran, w_min, \* the working copies
    mapping,       \* dict: live key -> mask (the same array object as masks[key])
    cnt,           \* loop counter of `for cnt in range(self._nfeature)`
    last,          \* what the latest round did: <<kind, idx_keep, idx_kill, min_val>>
    warned,        \* warnings.warn was called
    ret,           \* returned (masks, w_tran, w_min), Unset before the return
    \* ---- one peak_local_max_adaptive call ----
    p_pc,          \* "idle", "loop", "check", "returned", "raised"
    found,         \* what feature.peak_local_max finds for each min_distance tried
    errors, num_peaks_max,
    p_i,           \* position of the for loop in min_distance
    idx, n,        \* the locals idx and n (n is None while unbound)
    p_warned,      \* a warning was emitted
    p_err,         \* the exception raised, "none" if none
    p_out,         \* the returned peaks
    \* ---- the tagging step of one build_phases call ----
    t_pc,          \* "idle", "start", "tagged", "done"
    lnpis_in,      \* the regions built from the merged masks (.mask, masked convention)
    tags,          \* what tag_phases returned for lnpis_in
    merge_phase_ids,
    index, lnpis   \* the locals index and lnpis

mvars == <<data, masks, masks_in, c_w_tran, c_w_min, pc, force, efac,
           nfeature_max, w_tran, w_min, mapping, cnt, last, warned, ret>>

pvars == <<p_pc, found, errors, num_peaks_max, p_i, idx, n, p_warned, p_err, p_out>>

tvars == <<t_pc, lnpis_in, tags, merge_phase_ids, index, lnpis>>

vars == <<mvars, pvars, tvars>>

-----------------------------------------------------------------------------
(* Barrier estimator                                                       *)

\* self._nfeature
NFeature == Cardinality(DOMAIN masks)
Index == DOMAIN masks

\* labels_to_masks: one image-convention mask per positive label
LabelsToMasks(labels, nf) == [i \in 0..(nf - 1) |-> {p \in Points : labels[p] = i + 1}]

\* structuring element of connectivity 1 on the 1-D lattice (borders reflect)
Nbhd(p) == {q \in Points : q - p \in {-1, 0, 1}}

\* segmentation.find_boundaries(mask, mode='thick'): dilation # erosion
FindBoundaries(msk) ==
    {p \in Points : (Nbhd(p) \cap msk # {}) /\ (Nbhd(p) \ msk # {})}

\* _boundaries_overlap[i, j]; the empty set stands for None
BoundariesOverlap(ms, i, j) ==
    (FindBoundaries(ms[i]) \cap FindBoundaries(ms[j])) \cap (ms[i] \cup ms[j])

\* w_min: -max of the field over each mask
WMin(ms) == [i \in DOMAIN ms |-> 0 - SetMax({data[p] : p \in ms[i]})]

Combinations(S) == {ij \in S \X S : ij[1] < ij[2]}

\* out[i, j] = out[j, i] = val
SetPair(out, i, j, val) == [out EXCEPT ![<<i, j>>] = val, ![<<j, i>>] = val]

TranVal(ms, i, j) ==
    LET boundary == BoundariesOverlap(ms, i, j)
    IN  IF boundary = {} THEN Inf ELSE 0 - SetMax({data[p] : p \in boundary})

RECURSIVE FillTran(_, _, _)
FillTran(out, ms, pairs) ==
    IF pairs = {} THEN out
    ELSE LET ij == CHOOSE x \in pairs : TRUE
         IN  FillTran(SetPair(out, ij[1], ij[2], TranVal(ms, ij[1], ij[2])),
                      ms, pairs \ {ij})

\* w_tran: np.full(inf), then one value per pair of _boundaries_overlap
WTran(ms) ==
    FillTran([ij \in (DOMAIN ms) \X (DOMAIN ms) |-> Inf], ms, Combinations(DOMAIN ms))

\* de = w_tran - w_min (w_min broadcast as a column)
DeltaW(wt, wm) == [ij \in DOMAIN wt |-> Sub(wt[ij], wm[ij[1]])]

-----------------------------------------------------------------------------
(* Greedy merger                                                           *)

\* np.nanmin(de)
NanMin(de) == SetMin({de[ij] : ij \in DOMAIN de})

\* [x[0] for x in np.where(de == min_val)]: first hit in row-major order
FirstWhere(de, min_val) ==
    LET hits == {ij \in DOMAIN de : de[ij] = min_val}
        r == SetMin({ij[1] : ij \in hits})
        c == SetMin({ij[2] : ij \in {h \in hits : h[1] = r}})
    IN  <<r, c>>

\* KeepKill with the comparison inverted: the higher minimum survives
KeepKill_Inverted(de, wm, min_val) ==
    LET p == FirstWhere(de, min_val)
    IN  IF wm[p[1]] < wm[p[2]] THEN <<p[2], p[1]>> ELSE p

\* KeepKill without the swap: the row index of the hit always survives
KeepKill_NoSwap(de, wm, min_val) == FirstWhere(de, min_val)

\* the pair after `if w_min[idx_keep] > w_min[idx_kill]: swap`
KeepKill(de, wm, min_val) ==
    LET p == FirstWhere(de, min_val)
    IN  IF wm[p[1]] > wm[p[2]] THEN <<p[2], p[1]>> ELSE p

\* NewTran that takes the survivor's row alone
NewTran_KeepRow(wt, nf, keep, kill) ==
    [j \in 0..(nf - 1) |-> IF j = keep THEN Inf ELSE wt[<<keep, j>>]]

\* new_tran = w_tran[[idx_keep, idx_kill], :].min(axis=0); new_tran[idx_keep] = inf
NewTran(wt, nf, keep, kill) ==
    [j \in 0..(nf - 1) |-> IF j = keep THEN Inf ELSE Min(wt[<<keep, j>>], wt[<<kill, j>>])]

\* AssignRowCol that writes the row only
AssignRowCol_RowOnly(wt, k, vec) ==
    [ij \in DOMAIN wt |-> IF ij[1] = k THEN vec[ij[2]] ELSE wt[ij]]

\* w_tran[k, :] = w_tran[:, k] = vec  (row first, then column)
AssignRowCol(wt, k, vec) ==
    [ij \in DOMAIN wt |-> IF ij[2] = k THEN vec[ij[1]]
                          ELSE IF ij[1] = k THEN vec[ij[2]]
                          ELSE wt[ij]]

\* the two w_tran updates of a merge step
MergeTran(wt, nf, keep, kill) ==
    AssignRowCol(AssignRowCol(wt, keep, NewTran(wt, nf, keep, kill)),
                 kill, [j \in 0..(nf - 1) |-> Inf])

\* StopCheck with the count test off by one
StopCheck_Strict(min_val, nfeature) ==
    /\ min_val > efac
    /\ \/ ~force
       \/ nfeature < nfeature_max

\* the termination check: TRUE when the round breaks out of the loop
StopCheck(min_val, nfeature) ==
    /\ min_val > efac
    /\ \/ ~force
       \/ nfeature <= nfeature_max

\* the code after the loop: restrict to the surviving keys, in key order
RECURSIVE SortedSeq(_)
SortedSeq(S) == IF S = {} THEN <<>> ELSE <<SetMin(S)>> \o SortedSeq(S \ {SetMin(S)})

Returned(mp, wt, wm) ==
    LET idx_min == SortedSeq(DOMAIN mp)
        k == Len(idx_min)
    IN  [masks  |-> [a \in 1..k |-> ChangeConvention(mp[idx_min[a]], "image", "image")],
         w_tran |-> [ab \in (1..k) \X (1..k) |-> wt[<<idx_min[ab[1]], idx_min[ab[2]]>>]],
         w_min  |-> [a \in 1..k |-> wm[idx_min[a]]]]

PeakIdle ==
    /\ p_pc = "idle" /\ found = <<>> /\ errors = "warn" /\ num_peaks_max = Inf
    /\ p_i = 1 /\ idx = {} /\ n = None
    /\ p_warned = FALSE /\ p_err = "none" /\ p_out = {}

TagIdle ==
    /\ t_pc = "idle" /\ lnpis_in = <<>> /\ tags = <<>> /\ merge_phase_ids = TRUE
    /\ index = <<>> /\ lnpis = <<>>

Init ==
    /\ PeakIdle /\ TagIdle
    /\ \E nf \in 1..MaxFeature :
       \E labels \in [Points -> 0..nf] :
          /\ (1..nf) \subseteq {labels[p] : p \in Points}
          /\ masks = LabelsToMasks(labels, nf)
          /\ data \in [Points -> Vals]
          /\ \A p \in Points : labels[p] = 0 => data[p] = 0
    /\ masks_in = masks
    /\ c_w_tran = Unset /\ c_w_min = Unset
    /\ pc = "idle"
    /\ force = FALSE /\ efac = 0 /\ nfeature_max = None
    /\ w_tran = Unset /\ w_min = Unset /\ mapping = Unset
    /\ cnt = 0 /\ last = <<"none", 0, 0, 0>> /\ warned = FALSE /\ ret = Unset

\* merge_regions entry, with convention='image' and warn=True: lines 399-408
Call ==
    /\ pc = "idle"
    /\ \E f \in BOOLEAN, e \in Thresholds, m \in NfeatureMaxChoices :
          /\ force' = f
          /\ efac' = e
          /\ nfeature_max' = IF m = None THEN NFeature ELSE m
    /\ c_w_tran' = IF c_w_tran = Unset THEN WTran(masks) ELSE c_w_tran
    /\ c_w_min' = IF c_w_min = Unset THEN WMin(masks) ELSE c_w_min
    /\ w_tran' = c_w_tran'
    /\ w_min' = c_w_min'
    /\ mapping' = [i \in Index |-> masks[i]]
    /\ cnt' = 0
    /\ pc' = "loop"
    /\ UNCHANGED <<data, masks, masks_in, last, warned, ret>>
    /\ UNCHANGED <<pvars, tvars>>

\* one round that passes the termination check and merges: lines 411-448
RoundMerge ==
    /\ pc = "loop" /\ cnt < NFeature
    /\ LET de == DeltaW(w_tran, w_min)
           min_val == NanMin(de)
           kk == KeepKill(de, w_min, min_val)
       IN  /\ ~StopCheck(min_val, Cardinality(DOMAIN mapping))
           /\ kk[1] \in DOMAIN mapping /\ kk[2] \in DOMAIN mapping
           /\ w_tran' = MergeTran(w_tran, NFeature, kk[1], kk[2])
           /\ masks' = [masks EXCEPT ![kk[1]] = masks[kk[1]] \cup masks[kk[2]]]
           /\ mapping' = [i \in DOMAIN mapping \ {kk[2]} |->
                             IF i = kk[1] THEN mapping[kk[1]] \cup mapping[kk[2]]
                             ELSE mapping[i]]
           /\ last' = <<"merge", kk[1], kk[2], min_val>>
    /\ cnt' = cnt + 1
    /\ UNCHANGED <<data, masks_in, c_w_tran, c_w_min, pc, force, efac,
                   nfeature_max, w_min, warned, ret>>
    /\ UNCHANGED <<pvars, tvars>>

\* a round whose selected key is no longer in mapping: KeyError at line 447
RoundRaise ==
    /\ pc = "loop" /\ cnt < NFeature
    /\ LET de == DeltaW(w_tran, w_min)
           min_val == NanMin(de)
           kk == KeepKill(de, w_min, min_val)
       IN  /\ ~StopCheck(min_val, Cardinality(DOMAIN mapping))
           /\ ~(kk[1] \in DOMAIN mapping /\ kk[2] \in DOMAIN mapping)
           /\ w_tran' = MergeTran(w_tran, NFeature, kk[1], kk[2])
           /\ last' = <<"raise", kk[1], kk[2], min_val>>
    /\ pc' = "error"
    /\ UNCHANGED <<data, masks, masks_in, c_w_tran, c_w_min, force, efac,
                   nfeature_max, w_min, mapping, cnt, warned, ret>>
    /\ UNCHANGED <<pvars, tvars>>

\* a round that breaks, and the return: lines 417-426, 450-464
RoundStop ==
    /\ pc = "loop" /\ cnt < NFeature
    /\ LET min_val == NanMin(DeltaW(w_tran, w_min))
       IN  /\ StopCheck(min_val, Cardinality(DOMAIN mapping))
           /\ last' = <<"stop", 0, 0, min_val>>
    /\ warned' = (~force /\ Cardinality(DOMAIN mapping) > nfeature_max)
    /\ ret' = Returned(mapping, w_tran, w_min)
    /\ pc' = "done"
    /\ UNCHANGED <<data, masks, masks_in, c_w_tran, c_w_min, force, efac,
                   nfeature_max, w_tran, w_min, mapping, cnt>>
    /\ UNCHANGED <<pvars, tvars>>

\* the range is exhausted, and the return: lines 409, 450-464
LoopEnd ==
    /\ pc = "loop" /\ cnt = NFeature
    /\ ret' = Returned(mapping, w_tran, w_min)
    /\ pc' = "done"
    /\ UNCHANGED <<data, masks, masks_in, c_w_tran, c_w_min, force, efac,
                   nfeature_max, w_tran, w_min, mapping, cnt, last, warned>>
    /\ UNCHANGED <<pvars, tvars>>

Next == Call \/ RoundMerge \/ RoundRaise \/ RoundStop \/ LoopEnd

Spec == Init /\ [][Next]_vars

-----------------------------------------------------------------------------
(* Properties of merge_regions                                             *)

Terminal == pc \in {"done", "error"}
Live == DOMAIN mapping
RetLen == Cardinality(DOMAIN ret.masks)
Symmetric(m) == \A ij \in DOMAIN m : m[ij] = m[<<ij[2], ij[1]>>]
PairsOf(S) == {ij \in S \X S : ij[1] # ij[2]}
MinOver(de, prs) == IF prs = {} THEN Inf ELSE SetMin({de[ij] : ij \in prs})
InRound == pc = "loop" /\ cnt < NFeature
MinVal == NanMin(DeltaW(w_tran, w_min))
\* the rule of the claim: merge on low cost, or when forced above the count
MergeRule == MinVal <= efac \/ (force /\ Cardinality(Live) > nfeature_max)

\* C1: every run with force=True returns a mask list of length at most
\* max(1, max_regions), whatever the barrier matrix, threshold and max_regions.
C1_CountContract ==
    (force /\ Terminal) => (pc = "done" /\ RetLen <= Max(1, nfeature_max))

\* C2: from pairwise disjoint input masks, the final masks are pairwise disjoint
\* and their union is the union of the input masks.
C2_MaskPartition ==
    (/\ pc = "done"
     /\ \A i, j \in DOMAIN masks_in : i # j => masks_in[i] \cap masks_in[j] = {})
    => (/\ \A a, b \in DOMAIN ret.masks : a # b => ret.masks[a] \cap ret.masks[b] = {}
        /\ UNION {ret.masks[a] : a \in DOMAIN ret.masks}
             = UNION {masks_in[i] : i \in DOMAIN masks_in})

\* C3: every run returns a result after at most nfeature rounds, and a round
\* that does not stop removes exactly one live region.
C3_Termination ==
    [][/\ InRound =>
            \/ pc' = "done"
            \/ /\ pc' = "loop" /\ cnt' = cnt + 1 /\ cnt' <= NFeature
               /\ Cardinality(DOMAIN mapping') = Cardinality(Live) - 1
       /\ (pc = "loop" /\ cnt = NFeature) => pc' = "done"]_vars

\* C4: w_tran is symmetric: as computed by the estimator, as the working matrix
\* after every round, and as the reduced matrix merge_regions returns.
C4_Symmetry ==
    /\ Symmetric(c_w_tran)
    /\ Symmetric(w_tran)
    /\ pc = "done" => Symmetric(ret.w_tran)

C4_Witness ==
    /\ pc = "done" /\ cnt >= 1 /\ RetLen >= 2
    /\ \E ab \in DOMAIN ret.w_tran : ab[1] # ab[2] /\ ret.w_tran[ab] < Inf

\* C5 as stated: after a merge step the minimum of delta_w over the remaining
\* pairs is at least the pre-merge minimum over the pairs that involve neither
\* merged region (taken where some such pair is adjacent).
C5_Monotonicity_Stated ==
    [][(InRound /\ last'[1] = "merge" /\ cnt' = cnt + 1) =>
          LET rest == PairsOf(Live \ {last'[2], last'[3]})
          IN  MinOver(DeltaW(w_tran, w_min), rest) < Inf =>
                 MinOver(DeltaW(w_tran', w_min'), PairsOf(DOMAIN mapping'))
                   >= MinOver(DeltaW(w_tran, w_min), rest)]_vars

\* C5 amended: after a merge step the minimum of delta_w over the remaining
\* pairs is at least the pre-merge minimum of delta_w over all pairs (min_val),
\* and delta_w of every pair that involves neither merged region is unchanged.
C5_Monotonicity ==
    [][(InRound /\ last'[1] = "merge" /\ cnt' = cnt + 1) =>
          LET rest == PairsOf(Live \ {last'[2], last'[3]})
              de == DeltaW(w_tran, w_min)
              de2 == DeltaW(w_tran', w_min')
          IN  /\ MinOver(de2, PairsOf(DOMAIN mapping')) >= NanMin(de)
              /\ \A ij \in rest : de2[ij] = de[ij]]_vars

\* a merge step left three live regions, its survivor's cheapest pair below the
\* cheapest pair of the two bystanders
C5_Witness ==
    /\ pc = "loop" /\ last[1] = "merge" /\ Cardinality(Live) = 3
    /\ LET de == DeltaW(w_tran, w_min)
           rest == PairsOf(Live \ {last[2]})
       IN  /\ MinOver(de, rest) < Inf
           /\ MinOver(de, PairsOf(Live)) < MinOver(de, rest)
           /\ MinOver(de, PairsOf(Live)) >= last[4]

\* C6: when the input already has live_count <= max_regions and
\* min(delta_w) > merge_threshold, the run merges nothing and returns the input
\* masks with w_tran and w_min unchanged.
C6_Precondition ==
    /\ NFeature <= nfeature_max
    /\ NanMin(DeltaW(c_w_tran, c_w_min)) > efac

C6_Idempotence ==
    (pc = "done" /\ C6_Precondition) =>
        /\ cnt = 0
        /\ RetLen = NFeature
        /\ \A i \in Index : ret.masks[i + 1] = masks_in[i] /\ ret.w_min[i + 1] = c_w_min[i]
        /\ \A ij \in Index \X Index : ret.w_tran[<<ij[1] + 1, ij[2] + 1>>] = c_w_tran[ij]

C6_Witness ==
    /\ pc = "done" /\ C6_Precondition /\ NFeature >= 2
    /\ NanMin(DeltaW(c_w_tran, c_w_min)) < Inf

\* C8: a merge_regions call leaves the estimator's masks, w_min and w_tran as
\* they were before the call.
C8_NoSideEffects ==
    pc = "done" =>
        /\ masks = masks_in
        /\ c_w_tran = WTran(masks_in)
        /\ c_w_min = WMin(masks_in)

\* C9: a round merges if and only if min_val <= merge_threshold, or force is
\* true and the live count exceeds max_regions; otherwise the run stops.
C9_MergeOrStop ==
    [][InRound =>
          /\ MergeRule => (/\ last'[1] = "merge" /\ pc' = "loop"
                           /\ Cardinality(DOMAIN mapping') = Cardinality(Live) - 1)
          /\ ~MergeRule => (pc' = "done" /\ mapping' = mapping)]_vars

\* a round went through the merge step and completed it
MergeStep == InRound /\ last'[1] = "merge" /\ cnt' = cnt + 1

\* C11: after a merge step of idx_keep and idx_kill, for every other live
\* region j, w_tran[idx_keep, j] = w_tran[j, idx_keep] is the minimum of the
\* pre-merge w_tran[idx_keep, j] and w_tran[idx_kill, j]; the self-transition of
\* idx_keep is +inf; the row and column of idx_kill are +inf; every entry
\* between two regions other than idx_keep and idx_kill is unchanged.
C11_TransitionUpdate ==
    [][MergeStep =>
          LET keep == last'[2]
              kill == last'[3]
              others == Index \ {keep, kill}
          IN  /\ \A j \in Live \ {keep, kill} :
                    /\ w_tran'[<<keep, j>>] = Min(w_tran[<<keep, j>>], w_tran[<<kill, j>>])
                    /\ w_tran'[<<j, keep>>] = w_tran'[<<keep, j>>]
              /\ w_tran'[<<keep, keep>>] = Inf
              /\ \A j \in Index : w_tran'[<<kill, j>>] = Inf /\ w_tran'[<<j, kill>>] = Inf
              /\ \A ij \in others \X others : w_tran'[ij] = w_tran[ij]]_vars

\* the first merge step gave the survivor a finite barrier to a live region it
\* was not adjacent to: the barrier came from the killed region's row
C11_Witness ==
    /\ pc = "loop" /\ cnt = 1 /\ last[1] = "merge" /\ last[2] # last[3]
    /\ \E j \in Live \ {last[2]} :
          /\ w_tran[<<last[2], j>>] < Inf
          /\ c_w_tran[<<last[2], j>>] = Inf
          /\ w_tran[<<last[2], j>>] = c_w_tran[<<last[3], j>>]

\* C12: every merge step selects two distinct regions that are both live, also
\* when every remaining delta_w entry is +inf and force still demands fewer
\* regions.
C12_DistinctLivePair ==
    [][(InRound /\ last'[1] \in {"merge", "raise"}) =>
          /\ last'[2] # last'[3]
          /\ last'[2] \in Live /\ last'[3] \in Live]_vars

\* C13: the w_min entry of every live region, and every entry of the returned
\* w_min, is the negative of the maximum field value over the region's current
\* (merged) mask.
C13_MinimumConsistency ==
    /\ pc \in {"loop", "done", "error"} =>
          \A i \in Live : w_min[i] = 0 - SetMax({data[p] : p \in mapping[i]})
    /\ pc = "done" =>
          \A a \in DOMAIN ret.masks :
             ret.w_min[a] = 0 - SetMax({data[p] : p \in ret.masks[a]})

\* a run returned a region merged from two regions of different minima, the
\* selected pair having been swapped so that the lower one survived
C13_Witness ==
    /\ pc = "done" /\ cnt = 1 /\ RetLen >= 1
    /\ \E i \in Live :
          /\ masks_in[i] # mapping[i]
          /\ \E k \in Index \ Live :
                /\ masks_in[k] \subseteq mapping[i]
                /\ c_w_min[k] > c_w_min[i]
                /\ FirstWhere(DeltaW(c_w_tran, c_w_min),
                              NanMin(DeltaW(c_w_tran, c_w_min))) = <<k, i>>

-----------------------------------------------------------------------------
(* Adaptive peak finder: peak_local_max_adaptive                           *)

Policies == {"raise", "warn", "ignore"}

\* what the overflow branch does for a value of `errors`: lines 96-103.  The
\* inner else calls `warning.warn`; the module imported is `warnings`.
OverflowOutcome(e) ==
    IF e = "ignore" THEN "pass"
    ELSE IF e \in {"raise", "ignore"}
         THEN IF e = "raise" THEN "RuntimeError" ELSE "NameError"
         ELSE "pass"

InitPeak ==
    /\ p_pc = "loop"
    /\ \E k \in 0..MaxCand : found \in [1..k -> SUBSET Points]
    /\ errors \in Policies
    /\ num_peaks_max \in {Inf} \cup 0..MaxPeaks
    /\ p_i = 1 /\ idx = {} /\ n = None
    /\ p_warned = FALSE /\ p_err = "none" /\ p_out = {}

MergeIdle ==
    /\ data = <<>> /\ masks = <<>> /\ masks_in = <<>>
    /\ c_w_tran = Unset /\ c_w_min = Unset
    /\ pc = "unused"
    /\ force = FALSE /\ efac = 0 /\ nfeature_max = None
    /\ w_tran = Unset /\ w_min = Unset /\ mapping = Unset
    /\ cnt = 0 /\ last = <<"none", 0, 0, 0>> /\ warned = FALSE /\ ret = Unset

\* one pass of the for loop that goes on to the next min_distance: lines 81-93
PeakTry ==
    /\ p_pc = "loop" /\ p_i <= Len(found)
    /\ Cardinality(found[p_i]) > num_peaks_max
    /\ idx' = found[p_i]
    /\ n' = Cardinality(found[p_i])
    /\ p_i' = p_i + 1
    /\ UNCHANGED <<p_pc, found, errors, num_peaks_max, p_warned, p_err, p_out>>
    /\ UNCHANGED <<mvars, tvars>>

\* the pass that breaks: n <= num_peaks_max
PeakBreak ==
    /\ p_pc = "loop" /\ p_i <= Len(found)
    /\ Cardinality(found[p_i]) <= num_peaks_max
    /\ idx' = found[p_i]
    /\ n' = Cardinality(found[p_i])
    /\ p_pc' = "check"
    /\ UNCHANGED <<found, errors, num_peaks_max, p_i, p_warned, p_err, p_out>>
    /\ UNCHANGED <<mvars, tvars>>

\* the list is exhausted
PeakLoopEnd ==
    /\ p_pc = "loop" /\ p_i > Len(found)
    /\ p_pc' = "check"
    /\ UNCHANGED <<found, errors, num_peaks_max, p_i, idx, n, p_warned, p_err, p_out>>
    /\ UNCHANGED <<mvars, tvars>>

\* `if n > num_peaks_max` with n unbound (empty min_distance): NameError
PeakUnbound ==
    /\ p_pc = "check" /\ n = None
    /\ p_err' = "NameError"
    /\ p_pc' = "raised"
    /\ UNCHANGED <<found, errors, num_peaks_max, p_i, idx, n, p_warned, p_out>>
    /\ UNCHANGED <<mvars, tvars>>

\* the overflow branch raises: lines 95-103
PeakRaise ==
    /\ p_pc = "check" /\ n # None
    /\ n > num_peaks_max
    /\ OverflowOutcome(errors) # "pass"
    /\ p_err' = OverflowOutcome(errors)
    /\ p_pc' = "raised"
    /\ UNCHANGED <<found, errors, num_peaks_max, p_i, idx, n, p_warned, p_out>>
    /\ UNCHANGED <<mvars, tvars>>

\* no overflow, or the overflow branch passes; the return: lines 95-111
PeakReturn ==
    /\ p_pc = "check" /\ n # None
    /\ (n > num_peaks_max) => OverflowOutcome(errors) = "pass"
    /\ p_out' = idx
    /\ p_pc' = "returned"
    /\ UNCHANGED <<found, errors, num_peaks_max, p_i, idx, n, p_warned, p_err>>
    /\ UNCHANGED <<mvars, tvars>>

NextPeak == PeakTry \/ PeakBreak \/ PeakLoopEnd \/ PeakUnbound \/ PeakRaise \/ PeakReturn

InitPeakCall == InitPeak /\ MergeIdle /\ TagIdle

SpecPeak == InitPeakCall /\ [][NextPeak]_vars

PeakOver ==
    /\ Len(found) >= 1
    /\ \A k \in 1..Len(found) : Cardinality(found[k]) > num_peaks_max

\* C7: when every candidate finds more than max_peaks peaks, 'raise' fails with
\* the CountExceeded error and returns nothing, 'warn' warns and returns the last
\* candidate's peaks, 'ignore' returns them silently; when some candidate finds
\* at most max_peaks peaks, there is no error and no warning.
C7_OverflowPolicy ==
    (p_pc \in {"returned", "raised"} /\ Len(found) >= 1) =>
        /\ (PeakOver /\ errors = "raise") => (p_pc = "raised" /\ p_err = "RuntimeError")
        /\ (PeakOver /\ errors = "warn") =>
              (p_pc = "returned" /\ p_warned /\ p_out = found[Len(found)])
        /\ (PeakOver /\ errors = "ignore") =>
              (p_pc = "returned" /\ ~p_warned /\ p_out = found[Len(found)])
        /\ ~PeakOver => (p_pc = "returned" /\ ~p_warned /\ p_err = "none")

-----------------------------------------------------------------------------
(* Tag merging: PhaseCreator.build_phases (tag_phases) and _merge_phase_ids *)

Tags == 0..MaxTag

\* ref.list_from_masks(masks, convention): one region per mask; a region is
\* represented by its .mask, which is in the masked convention
ListFromMasks(ms, convention) ==
    [a \in DOMAIN ms |-> ChangeConvention(ms[a], convention, "masked")]

Abs(x) == IF x < 0 THEN 0 - x ELSE x

\* pdist(phase_ids.reshape(-1, 1)).astype(int): one distance per pair i < j
Pdist(ids) == [ij \in Combinations(DOMAIN ids) |-> Abs(ids[ij[1]] - ids[ij[2]])]

\* np.unique(phase_ids): the distinct tags in ascending order
Unique(ids) == SortedSeq({ids[i] : i \in DOMAIN ids})

RECURSIVE AllOf(_)
\* np.all(stack, axis=0): a point is True when it is True in every mask
AllOf(S) ==
    IF S = {} THEN Points
    ELSE LET m == CHOOSE x \in S : TRUE IN m \cap AllOf(S \ {m})

\* MergedMask with np.any in place of np.all
MergedMask_Any(ids, ls, tag) ==
    LET where == {i \in DOMAIN ids : ids[i] = tag}
    IN  UNION {ls[i] : i \in where}

\* the mask built for one tag: lines 617-618
MergedMask(ids, ls, tag) ==
    LET where == {i \in DOMAIN ids : ids[i] = tag}
    IN  AllOf({ls[i] : i \in where})

\* _merge_phase_ids(ref, phase_ids, lnpis): <<phase_ids, lnpis>> returned
MergePhaseIds(ids, ls) ==
    IF Len(ids) = 1 THEN <<ids, ls>>
    ELSE IF ~(\E ij \in DOMAIN Pdist(ids) : Pdist(ids)[ij] = 0) THEN <<ids, ls>>
    ELSE LET u == Unique(ids)
             masks_new == [a \in 1..Len(u) |-> MergedMask(ids, ls, u[a])]
         IN  <<u, ListFromMasks(masks_new, "masked")>>

InitTag ==
    /\ t_pc = "start"
    /\ \E k \in 1..MaxPhases :
       \E labels \in [Points -> 0..k] :
          /\ (1..k) \subseteq {labels[p] : p \in Points}
          /\ lnpis_in = ListFromMasks([a \in 1..k |-> {p \in Points : labels[p] = a}],
                                      "image")
    /\ merge_phase_ids \in BOOLEAN
    /\ tags = <<>> /\ index = <<>>
    /\ lnpis = lnpis_in

\* index = self.tag_phases(lnpis): line 677
TagPhases ==
    /\ t_pc = "start"
    /\ tags' \in [1..Len(lnpis) -> Tags]
    /\ index' = tags'
    /\ t_pc' = "tagged"
    /\ UNCHANGED <<lnpis_in, merge_phase_ids, lnpis>>
    /\ UNCHANGED <<mvars, pvars>>

\* index, lnpis = self._merge_phase_ids(ref, index, lnpis): lines 678-679
MergeTagged ==
    /\ t_pc = "tagged" /\ merge_phase_ids
    /\ index' = MergePhaseIds(index, lnpis)[1]
    /\ lnpis' = MergePhaseIds(index, lnpis)[2]
    /\ t_pc' = "done"
    /\ UNCHANGED <<lnpis_in, tags, merge_phase_ids>>
    /\ UNCHANGED <<mvars, pvars>>

\* merge_phase_ids is False: the tags and regions are returned as they are
KeepTagged ==
    /\ t_pc = "tagged" /\ ~merge_phase_ids
    /\ t_pc' = "done"
    /\ UNCHANGED <<lnpis_in, tags, merge_phase_ids, index, lnpis>>
    /\ UNCHANGED <<mvars, pvars>>

NextTag == TagPhases \/ MergeTagged \/ KeepTagged

InitTagCall == InitTag /\ MergeIdle /\ PeakIdle

SpecTag == InitTagCall /\ [][NextTag]_vars

Included(region) == ChangeConvention(region, "masked", "image")
Distinct(ids) == \A i, j \in DOMAIN ids : i # j => ids[i] # ids[j]

\* C10: with tag_fn supplied and merge_tagged true, the returned tags are
\* pairwise distinct, every assigned tag appears exactly once, the region of a
\* tag covers exactly the union of the included points of the input regions with
\* that tag, and pairwise distinct tags leave the regions and their order
\* unchanged.
C10_TagMerge ==
    (t_pc = "done" /\ merge_phase_ids) =>
        /\ Distinct(index)
        /\ Len(lnpis) = Len(index)
        /\ {index[a] : a \in DOMAIN index} = {tags[i] : i \in DOMAIN tags}
        /\ \A a \in DOMAIN index :
              Included(lnpis[a]) =
                 UNION {Included(lnpis_in[i]) : i \in {j \in DOMAIN tags : tags[j] = index[a]}}
        /\ Distinct(tags) => (index = tags /\ lnpis = lnpis_in)

\* two of three regions share a tag and the third has a smaller one
C10_Witness ==
    /\ t_pc = "done" /\ merge_phase_ids /\ Len(tags) = 3 /\ Len(index) = 2
    /\ tags[1] = tags[2] /\ tags[3] < tags[1]
    /\ Included(lnpis_in[1]) # {} /\ Included(lnpis_in[2]) # {}

====
